---- MODULE Spec2Model ----
(***************************************************************************)
(* A model of fynesse: the DataAccess object (access.py), the two classes  *)
(* working on it, DataSolution (address.py) and DataAssessment             *)
(* (assess.py), and the ESC50Dataset loader (access.py).                    *)
(*                                                                         *)
(* Conventions.                                                            *)
(*  - A DataAccess object is the record da; None is the value None.        *)
(*  - The answer of an external query is identified by its serial number:  *)
(*    the n-th successful retrieval of a field yields the value n, so that *)
(*    a re-fetch is visible as a changed value.                            *)
(*  - Coordinates are integers counting 1/UnitsPerDegree of a degree, box  *)
(*    widths and heights are even, so that x / 2 and km / 111 are exact.   *)
(*  - A Python call is an operator from a frame s (the object, the ghost   *)
(*    retrieval counters, the exception in flight) and the outcome of the  *)
(*    external calls it makes to the frame after it.                       *)
(*  - address.py does not compile as it stands (line 82 is dedented to a   *)
(*    level that matches no block); its methods are modelled as written in *)
(*    lines 27-81.                                                         *)
(***************************************************************************)
EXTENDS Integers, Sequences, FiniteSets, TLC

\* Operations invoked on one DataAccess object in one run.
MaxOps == 3

None == 0
NoExc == "none"

\* address.py:56, box_deg = box_size_km / 111
KmPerDegree == 111
UnitsPerDegree == 2 * KmPerDegree

Half(x) == x \div 2

\* The constructor's arguments: place_name, latitude, longitude, box_width,
\* box_height. A negative width is accepted like any other.
Places ==
    {<<"Nyeri", -1, 37, 4, 2>>, <<"Nyeri", 2, 37, 0, 0>>, <<"Kisumu", 0, 35, -2, 4>>}

\* The centres address_feature_extraction is asked about.
Centres == {<<-1, 37>>, <<5, 30>>}

\* The cached query results that come from the map service.
GisFields == {"pois", "graph", "area", "buildings", "schools", "hospitals"}
LoadedFields == GisFields \cup {"population", "esc50_meta"}

\* da, fetched, last, nops: a DataAccess object, the number of retrievals of
\* each of its fields, the last operation invoked on it and how it ended, the
\* number of operations invoked. feat: the inputs and results of the feature
\* counts. audio: an ESC50Dataset and the last item read from it.
VARIABLES da, fetched, last, nops, feat, audio

vars == <<da, fetched, last, nops, feat, audio>>

(***************************************************************************)
(* DataAccess.__init__                                                     *)
(***************************************************************************)
DataAccess_init(place_name, latitude, longitude, box_width, box_height) ==
    LET north == latitude + Half(box_height)
        south == latitude - Half(box_height)
        west == longitude - Half(box_width)
        east == longitude + Half(box_width)
    IN  [place_name |-> place_name,
         latitude |-> latitude,
         longitude |-> longitude,
         box_width |-> box_width,
         box_height |-> box_height,
         north |-> north,
         south |-> south,
         west |-> west,
         east |-> east,
         bbox |-> <<west, south, east, north>>,
         pois |-> None,
         graph |-> None,
         area |-> None,
         nodes |-> None,
         edges |-> None,
         buildings |-> None,
         schools |-> None,
         hospitals |-> None,
         population |-> None,
         esc50_meta |-> None]

(***************************************************************************)
(* Frames                                                                  *)
(***************************************************************************)
\* The frame an operation starts in.
Enter == [da |-> da, fetched |-> fetched, exc |-> NoExc,
          allData |-> FALSE, roadExc |-> FALSE, extRaised |-> FALSE,
          ret |-> <<>>]

Raise(s, e) == [s EXCEPT !.exc = e]

\* An external call (the map service, a file read) raises.
ExtRaise(s) == [s EXCEPT !.exc = "Exception", !.extRaised = TRUE]

\* self.<f> = <external call>: the assignment happens only if the call returns.
Fetch(s, f, ok) ==
    IF ok
    THEN [s EXCEPT !.fetched[f] = @ + 1, !.da[f] = s.fetched[f] + 1]
    ELSE ExtRaise(s)

\* s ; t: t runs only if s raised nothing.
Then(s, t) == IF s.exc # NoExc THEN s ELSE t

(***************************************************************************)
(* DataAccess: GIS access                                                  *)
(***************************************************************************)
access_pois(s, ok) == Fetch(s, "pois", ok)

RoadOutcomes == {"ok", "graph_raises", "gdfs_raises"}

\* Mutant: nodes and edges are assigned one by one, the failure between them.
access_road_network_split(s, out) ==
    LET g == Fetch(s, "graph", out # "graph_raises")
    IN  Then(g, IF out = "gdfs_raises"
                THEN ExtRaise([g EXCEPT !.da.nodes = g.da.graph])
                ELSE [g EXCEPT !.da.nodes = g.da.graph, !.da.edges = g.da.graph])

access_road_network(s, out) ==
    LET g == Fetch(s, "graph", out # "graph_raises")
    IN  Then(g, IF out = "gdfs_raises"
                THEN ExtRaise(g)
                ELSE [g EXCEPT !.da.nodes = g.da.graph, !.da.edges = g.da.graph])

access_area_boundary(s, ok) == Fetch(s, "area", ok)

access_buildings(s, ok) == Fetch(s, "buildings", ok)

access_schools(s, ok) == Fetch(s, "schools", ok)

access_hospitals(s, ok) == Fetch(s, "hospitals", ok)

access_population(s, ok) == Fetch(s, "population", ok)

\* Which external call of access_all_data raises, if any.
AllDataOutcomes ==
    {"ok", "pois", "area", "buildings", "schools", "hospitals"}
        \cup {"graph_raises", "gdfs_raises"}

RoadOutcomeOf(out) == IF out \in RoadOutcomes THEN out ELSE "ok"

\* try: ... except Exception: pass (every exception modelled here is an Exception)
TryPass(after) == [after EXCEPT !.exc = NoExc]

\* Mutant: the road network is fetched outside any try.
access_all_data_notry(s, out) ==
    LET s0 == [s EXCEPT !.allData = TRUE]
        s1 == access_pois(s0, out # "pois")
        s2 == Then(s1, access_area_boundary(s1, out # "area"))
        s3 == Then(s2, access_buildings(s2, out # "buildings"))
        s4 == Then(s3, access_schools(s3, out # "schools"))
        s5 == Then(s4, access_hospitals(s4, out # "hospitals"))
        r == access_road_network(s5, RoadOutcomeOf(out))
    IN  Then(s5, [r EXCEPT !.roadExc = (r.exc # NoExc)])

access_all_data(s, out) ==
    LET s0 == [s EXCEPT !.allData = TRUE]
        s1 == access_pois(s0, out # "pois")
        s2 == Then(s1, access_area_boundary(s1, out # "area"))
        s3 == Then(s2, access_buildings(s2, out # "buildings"))
        s4 == Then(s3, access_schools(s3, out # "schools"))
        s5 == Then(s4, access_hospitals(s4, out # "hospitals"))
        r == access_road_network(s5, RoadOutcomeOf(out))
    IN  Then(s5, [TryPass(r) EXCEPT !.roadExc = (r.exc # NoExc)])

(***************************************************************************)
(* DataAccess: ESC-50                                                      *)
(***************************************************************************)
access_esc50(s, ok) == Fetch(s, "esc50_meta", ok)

\* Reads a file and returns its features; the object is not touched.
access_audio_features(s, ok) == IF ok THEN s ELSE ExtRaise(s)

(***************************************************************************)
(* DataAccess.plot_city_map                                                *)
(***************************************************************************)
\* self.<f>.plot(...): an attribute of None is an AttributeError.
Plot(s, f) == IF s.da[f] = None THEN Raise(s, "AttributeError") ELSE s

\* if show and self.<f> is not None: self.<f>.plot(...)
PlotIfShown(s, show, f) == Then(s, IF show /\ s.da[f] # None THEN Plot(s, f) ELSE s)

Layers == {"pois", "buildings", "roads", "schools", "hospitals"}

\* Mutant: the roads are drawn without the test for None.
plot_city_map_unguarded(s, show, areaOk) ==
    LET s1 == IF s.da.area = None
              THEN TryPass(access_area_boundary(s, areaOk))
              ELSE s
        s2 == PlotIfShown(s1, TRUE, "area")
        s3 == PlotIfShown(s2, "buildings" \in show, "buildings")
        s4 == Then(s3, IF "roads" \in show THEN Plot(s3, "edges") ELSE s3)
        s5 == PlotIfShown(s4, "pois" \in show, "pois")
        s6 == PlotIfShown(s5, "schools" \in show, "schools")
    IN  PlotIfShown(s6, "hospitals" \in show, "hospitals")

\* show: the layers whose show_ flag is true.
plot_city_map(s, show, areaOk) ==
    LET s1 == IF s.da.area = None
              THEN TryPass(access_area_boundary(s, areaOk))
              ELSE s
        s2 == PlotIfShown(s1, TRUE, "area")
        s3 == PlotIfShown(s2, "buildings" \in show, "buildings")
        s4 == PlotIfShown(s3, "roads" \in show, "edges")
        s5 == PlotIfShown(s4, "pois" \in show, "pois")
        s6 == PlotIfShown(s5, "schools" \in show, "schools")
    IN  PlotIfShown(s6, "hospitals" \in show, "hospitals")

(***************************************************************************)
(* Features, POI tables and dicts                                          *)
(*                                                                         *)
(* An Optional is a sequence of at most one element. A feature is the     *)
(* pair <<key, value>>, value an Optional string. A POI table is a set of  *)
(* column names and a sequence of rows, each a function from the columns   *)
(* to cells; a cell is a string or NaN. A Python dict is the sequence of   *)
(* its <<key, value>> items in insertion order.                            *)
(***************************************************************************)
NoneOpt == <<>>
Some(x) == <<x>>

NaN == "NaN"

\* address.py:10-25 and assess.py:10-25, the same list
default_features ==
    << <<"building", NoneOpt>>,
       <<"amenity", NoneOpt>>,
       <<"amenity", Some("school")>>,
       <<"amenity", Some("hospital")>>,
       <<"amenity", Some("restaurant")>>,
       <<"amenity", Some("cafe")>>,
       <<"shop", NoneOpt>>,
       <<"tourism", NoneOpt>>,
       <<"tourism", Some("hotel")>>,
       <<"tourism", Some("museum")>>,
       <<"leisure", NoneOpt>>,
       <<"leisure", Some("park")>>,
       <<"historic", NoneOpt>>,
       <<"amenity", Some("place_of_worship")>> >>

\* `if value`: None and the empty string are falsy.
Truthy(value) == value # NoneOpt /\ value[1] # ""

\* f"{key}:{value}"
FormatKeyValue(key, value) == key \o ":" \o value[1]

\* f"{key}:{value}" if value else key
FeatureName(key, value) ==
    IF Truthy(value) THEN FormatKeyValue(key, value) ELSE key

DictKeys(d) == {d[i][1] : i \in 1..Len(d)}

\* d[k], for k in d
DictGet(d, k) == d[CHOOSE i \in 1..Len(d) : d[i][1] = k][2]

\* d[k] = v: a present key keeps its place, a new one goes last.
DictSet(d, k, v) ==
    IF k \in DictKeys(d)
    THEN [i \in 1..Len(d) |-> IF d[i][1] = k THEN <<k, v>> ELSE d[i]]
    ELSE Append(d, <<k, v>>)

\* (pois[key] == value).sum()
CountEqual(pois, key, value) ==
    Cardinality({i \in 1..Len(pois.rows) :
                    pois.rows[i][key] # NaN /\ pois.rows[i][key] = value[1]})

\* pois[key].notnull().sum()
CountNotNull(pois, key) ==
    Cardinality({i \in 1..Len(pois.rows) : pois.rows[i][key] # NaN})

(***************************************************************************)
(* DataSolution                                                            *)
(***************************************************************************)
\* Mutant: all(...) for any(...).
address_visualization_all(s, out) ==
    LET s1 == IF \A data \in {s.da.area, s.da.buildings, s.da.edges,
                               s.da.nodes, s.da.pois} : data = None
              THEN access_all_data(s, out)
              ELSE s
        s2 == PlotIfShown(s1, TRUE, "area")
        s3 == PlotIfShown(s2, TRUE, "buildings")
        s4 == PlotIfShown(s3, TRUE, "edges")
        s5 == PlotIfShown(s4, TRUE, "nodes")
    IN  PlotIfShown(s5, TRUE, "pois")

address_visualization(s, out) ==
    LET s1 == IF \E data \in {s.da.area, s.da.buildings, s.da.edges,
                               s.da.nodes, s.da.pois} : data = None
              THEN access_all_data(s, out)
              ELSE s
        s2 == PlotIfShown(s1, TRUE, "area")
        s3 == PlotIfShown(s2, TRUE, "buildings")
        s4 == PlotIfShown(s3, TRUE, "edges")
        s5 == PlotIfShown(s4, TRUE, "nodes")
    IN  PlotIfShown(s5, TRUE, "pois")

\* address.py:71-79, the loop over the features
RECURSIVE counts_loop(_, _, _, _)
counts_loop(pois, features, i, counts) ==
    IF i > Len(features)
    THEN counts
    ELSE LET key == features[i][1]
             value == features[i][2]
         IN  counts_loop(pois, features, i + 1,
                IF key \in pois.columns
                THEN IF Truthy(value)
                     THEN DictSet(counts, FormatKeyValue(key, value),
                                  CountEqual(pois, key, value))
                     ELSE DictSet(counts, key, CountNotNull(pois, key))
                ELSE DictSet(counts, FeatureName(key, value), 0))

\* Mutant: the dict of the failed query is keyed by the feature's key alone.
RECURSIVE zero_counts_by_key(_, _, _)
zero_counts_by_key(features, i, counts) ==
    IF i > Len(features)
    THEN counts
    ELSE zero_counts_by_key(features, i + 1, DictSet(counts, features[i][1], 0))

\* address.py:69, the dict returned when the query raises
RECURSIVE zero_counts(_, _, _)
zero_counts(features, i, counts) ==
    IF i > Len(features)
    THEN counts
    ELSE zero_counts(features, i + 1,
            DictSet(counts, FeatureName(features[i][1], features[i][2]), 0))

\* Mutant: the box of the query is stored in the object.
address_feature_extraction_stores(s, latitude, longitude, box_size_km, features, query) ==
    LET feats == IF features = NoneOpt THEN default_features ELSE features[1]
        box_deg == (box_size_km * UnitsPerDegree) \div KmPerDegree
        north == latitude + Half(box_deg)
        south == latitude - Half(box_deg)
        east == longitude + Half(box_deg)
        west == longitude - Half(box_deg)
        bbox == <<west, south, east, north>>
        s1 == [s EXCEPT !.da.bbox = bbox]
    IN  IF query = NoneOpt
        THEN [s1 EXCEPT !.ret = zero_counts(feats, 1, <<>>)]
        ELSE [s1 EXCEPT !.ret = counts_loop(query[1], feats, 1, <<>>)]

\* query: the answer of ox.features_from_bbox, NoneOpt when it raises.
address_feature_extraction(s, latitude, longitude, box_size_km, features, query) ==
    LET feats == IF features = NoneOpt THEN default_features ELSE features[1]
        box_deg == (box_size_km * UnitsPerDegree) \div KmPerDegree
        north == latitude + Half(box_deg)
        south == latitude - Half(box_deg)
        east == longitude + Half(box_deg)
        west == longitude - Half(box_deg)
        bbox == <<west, south, east, north>>
        keys == {feats[i][1] : i \in 1..Len(feats)}
    IN  IF query = NoneOpt
        THEN [s EXCEPT !.ret = zero_counts(feats, 1, <<>>)]
        ELSE [s EXCEPT !.ret = counts_loop(query[1], feats, 1, <<>>)]

(***************************************************************************)
(* DataAssessment                                                          *)
(***************************************************************************)
\* assess.py:33-35: a copy of the table with the centroid columns added
WithCentroids(pois) ==
    [columns |-> pois.columns \cup {"latitude", "longitude"},
     rows |-> [i \in 1..Len(pois.rows) |->
                [c \in pois.columns \cup {"latitude", "longitude"} |->
                    IF c = "latitude" THEN pois.rows[i]["geometry"].y
                    ELSE IF c = "longitude" THEN pois.rows[i]["geometry"].x
                    ELSE pois.rows[i][c]]]]

\* Mutant: isnull() for notnull().
RECURSIVE poi_counts_loop_isnull(_, _, _, _)
poi_counts_loop_isnull(pois_df, features, i, poi_counts) ==
    IF i > Len(features)
    THEN poi_counts
    ELSE LET key == features[i][1]
             value == features[i][2]
         IN  poi_counts_loop_isnull(pois_df, features, i + 1,
                IF key \in pois_df.columns
                THEN IF Truthy(value)
                     THEN DictSet(poi_counts, FormatKeyValue(key, value),
                                  CountEqual(pois_df, key, value))
                     ELSE DictSet(poi_counts, key,
                                  Len(pois_df.rows) - CountNotNull(pois_df, key))
                ELSE DictSet(poi_counts, FeatureName(key, value), 0))

\* assess.py:37-45, the loop over the features
RECURSIVE poi_counts_loop(_, _, _, _)
poi_counts_loop(pois_df, features, i, poi_counts) ==
    IF i > Len(features)
    THEN poi_counts
    ELSE LET key == features[i][1]
             value == features[i][2]
         IN  poi_counts_loop(pois_df, features, i + 1,
                IF key \in pois_df.columns
                THEN IF Truthy(value)
                     THEN DictSet(poi_counts, FormatKeyValue(key, value),
                                  CountEqual(pois_df, key, value))
                     ELSE DictSet(poi_counts, key, CountNotNull(pois_df, key))
                ELSE DictSet(poi_counts, FeatureName(key, value), 0))

\* ok: whether the fetch of the POIs, if one is made, succeeds; content: the
\* table self.data_access.pois then holds. The result is the list of the
\* (POI Type, Count) rows of the frame returned.
assess_poi_distribution(s, features, ok, content) ==
    LET s1 == IF s.da.pois = None THEN access_pois(s, ok) ELSE s
        feats == IF features = NoneOpt THEN default_features ELSE features[1]
        pois_df == WithCentroids(content)
    IN  Then(s1, [s1 EXCEPT !.ret = poi_counts_loop(pois_df, feats, 1, <<>>)])

\* hasattr(self.data_access, name)
hasattr(obj, name) == name \in DOMAIN obj

assess_esc50_distribution(s) ==
    IF ~hasattr(s.da, "esc50_meta")
    THEN Raise(s, "ValueError")
    ELSE IF s.da.esc50_meta = None
         THEN Raise(s, "AttributeError") \* None.groupby
         ELSE s

\* ok: whether librosa.load succeeds on every sampled file.
assess_audio_duration(s, ok) ==
    IF ~hasattr(s.da, "esc50_meta")
    THEN Raise(s, "ValueError")
    ELSE IF s.da.esc50_meta = None
         THEN Raise(s, "AttributeError") \* None.sample
         ELSE IF ok THEN s ELSE ExtRaise(s)

(***************************************************************************)
(* POI tables the map service may answer with                              *)
(***************************************************************************)
\* Rows of a table.
MaxRows == 2

Geometries == {[x |-> "36.95", y |-> "-0.42"]}
TagCells(c) == IF c = "amenity" THEN {NaN, "city", "cafe"} ELSE {NaN, "city"}
ColumnSets ==
    {{"geometry"}, {"geometry", "amenity"}, {"geometry", "addr", "addr:city"}}

RowsOver(columns) ==
    {[c \in columns |-> IF c = "geometry" THEN g ELSE tags[c]] :
        g \in Geometries,
        tags \in {t \in [columns \ {"geometry"} -> UNION {TagCells(c) : c \in columns}] :
                    \A c \in columns \ {"geometry"} : t[c] \in TagCells(c)}}

SeqsUpTo(S, lo, hi) == UNION {[1..n -> S] : n \in lo..hi}

\* A successful query answers with at least one row.
Tables ==
    UNION {{[columns |-> columns, rows |-> rows] :
                rows \in SeqsUpTo(RowsOver(columns), 1, MaxRows)} :
           columns \in ColumnSets}

SampleTable ==
    [columns |-> {"geometry", "amenity"},
     rows |-> << [geometry |-> [x |-> "36.95", y |-> "-0.42"], amenity |-> "city"] >>]

(***************************************************************************)
(* The operations on a DataAccess object                                   *)
(***************************************************************************)
Idle(v) == v = [idle |-> TRUE]

Init ==
    /\ \E p \in Places : da = DataAccess_init(p[1], p[2], p[3], p[4], p[5])
    /\ fetched = [f \in LoadedFields |-> 0]
    /\ last = [op |-> "__init__", exc |-> NoExc, allData |-> FALSE,
               roadExc |-> FALSE, extRaised |-> FALSE, centre |-> <<>>]
    /\ nops = 0
    /\ Idle(feat)
    /\ Idle(audio)

\* The operation op ran from the current state and ended in frame r.
Do(op, r, centre) ==
    /\ nops < MaxOps
    /\ da' = r.da
    /\ fetched' = r.fetched
    /\ last' = [op |-> op, exc |-> r.exc, allData |-> r.allData,
                roadExc |-> r.roadExc, extRaised |-> r.extRaised, centre |-> centre]
    /\ nops' = nops + 1
    /\ UNCHANGED <<feat, audio>>

AccessPois == \E ok \in BOOLEAN : Do("access_pois", access_pois(Enter, ok), <<>>)

AccessRoadNetwork ==
    \E out \in RoadOutcomes :
        Do("access_road_network", access_road_network(Enter, out), <<>>)

AccessAreaBoundary ==
    \E ok \in BOOLEAN : Do("access_area_boundary", access_area_boundary(Enter, ok), <<>>)

AccessBuildings ==
    \E ok \in BOOLEAN : Do("access_buildings", access_buildings(Enter, ok), <<>>)

AccessSchools ==
    \E ok \in BOOLEAN : Do("access_schools", access_schools(Enter, ok), <<>>)

AccessHospitals ==
    \E ok \in BOOLEAN : Do("access_hospitals", access_hospitals(Enter, ok), <<>>)

AccessPopulation ==
    \E ok \in BOOLEAN : Do("access_population", access_population(Enter, ok), <<>>)

AccessAllData ==
    \E out \in AllDataOutcomes :
        Do("access_all_data", access_all_data(Enter, out), <<>>)

AccessEsc50 == \E ok \in BOOLEAN : Do("access_esc50", access_esc50(Enter, ok), <<>>)

AccessAudioFeatures ==
    \E ok \in BOOLEAN :
        Do("access_audio_features", access_audio_features(Enter, ok), <<>>)

PlotCityMap ==
    \E show \in {{}, {"roads", "pois"}, Layers}, areaOk \in BOOLEAN :
        Do("plot_city_map", plot_city_map(Enter, show, areaOk), <<>>)

AddressVisualization ==
    \E out \in AllDataOutcomes :
        Do("address_visualization", address_visualization(Enter, out), <<>>)

AddressFeatureExtraction ==
    \E c \in Centres, box_size_km \in {2}, query \in {NoneOpt, Some(SampleTable)} :
        Do("address_feature_extraction",
           address_feature_extraction(Enter, c[1], c[2], box_size_km, NoneOpt, query),
           c)

AssessPoiDistribution ==
    \E ok \in BOOLEAN :
        Do("assess_poi_distribution",
           assess_poi_distribution(Enter, NoneOpt, ok, SampleTable), <<>>)

AssessEsc50Distribution ==
    Do("assess_esc50_distribution", assess_esc50_distribution(Enter), <<>>)

AssessAudioDuration ==
    \E ok \in BOOLEAN :
        Do("assess_audio_duration", assess_audio_duration(Enter, ok), <<>>)

Next ==
    \/ AccessPois
    \/ AccessRoadNetwork
    \/ AccessAreaBoundary
    \/ AccessBuildings
    \/ AccessSchools
    \/ AccessHospitals
    \/ AccessPopulation
    \/ AccessAllData
    \/ AccessEsc50
    \/ AccessAudioFeatures
    \/ PlotCityMap
    \/ AddressVisualization
    \/ AddressFeatureExtraction
    \/ AssessPoiDistribution
    \/ AssessEsc50Distribution
    \/ AssessAudioDuration

Spec == Init /\ [][Next]_vars

\* The operations that fill or read the cache of map data on their own account.
NextCache ==
    \/ AccessPois
    \/ AccessAllData
    \/ PlotCityMap
    \/ AddressVisualization
    \/ AssessPoiDistribution

SpecCache == Init /\ [][NextCache]_vars

(***************************************************************************)
(* Properties of the DataAccess object                                     *)
(***************************************************************************)
Called(op) == nops' # nops /\ last'.op = op

\* C1: each cached query result is retrieved from the map service at most
\* once over any sequence of access_pois, access_all_data, plot_city_map,
\* address_visualization and assess_poi_distribution.
C1_RetrievedAtMostOnce == \A f \in GisFields : fetched[f] <= 1

EscOps == {"assess_esc50_distribution", "assess_audio_duration"}
MapOps == {"plot_city_map", "address_visualization", "assess_poi_distribution"}

\* C2 as stated: on a freshly constructed DataAccess, every external fetch
\* succeeding, each of the five operations completes without raising.
C2_AllTolerateNone ==
    (nops = 1 /\ ~last.extRaised /\ last.op \in MapOps \cup EscOps)
        => last.exc = NoExc

\* C2 amended: on a freshly constructed DataAccess, every external fetch
\* succeeding, plot_city_map, address_visualization and
\* assess_poi_distribution complete without raising, while
\* assess_esc50_distribution and assess_audio_duration raise.
C2_MapOpsTolerateNone ==
    /\ (nops = 1 /\ ~last.extRaised /\ last.op \in MapOps) => last.exc = NoExc
    /\ (nops = 1 /\ last.op \in EscOps) => last.exc # NoExc

C2_Witness ==
    /\ nops = 1
    /\ last.op = "plot_city_map"
    /\ ~last.extRaised
    /\ last.exc = NoExc
    /\ da.area # None
    /\ da.edges = None

BboxOf(d) ==
    <<d.longitude - Half(d.box_width), d.latitude - Half(d.box_height),
      d.longitude + Half(d.box_width), d.latitude + Half(d.box_height)>>

BboxOk(d) ==
    /\ d.bbox = BboxOf(d)
    /\ d.bbox = <<d.west, d.south, d.east, d.north>>
    /\ d.west + d.east = 2 * d.longitude
    /\ d.south + d.north = 2 * d.latitude
    /\ d.box_width >= 0 => d.west <= d.east
    /\ d.box_height >= 0 => d.south <= d.north

\* C3: before and after every operation bbox is (lon - w/2, lat - h/2,
\* lon + w/2, lat + h/2), centred on (lat, lon), with west <= east and
\* south <= north for a non-negative width and height, and no operation
\* changes it or the arguments it is derived from.
C3_BboxFixed ==
    [][/\ BboxOk(da)
       /\ BboxOk(da')
       /\ da'.bbox = da.bbox
       /\ <<da'.latitude, da'.longitude, da'.box_width, da'.box_height>>
            = <<da.latitude, da.longitude, da.box_width, da.box_height>>]_vars

C3_Witness ==
    /\ last.op = "address_feature_extraction"
    /\ last.centre # <<da.latitude, da.longitude>>
    /\ da.box_width > 0
    /\ fetched["pois"] > 0

\* C4: when the road-network fetch raises during access_all_data, the other
\* five fetches having succeeded, access_all_data returns normally with pois,
\* area, buildings, schools and hospitals populated and nodes and edges as
\* they were before the call.
C4_RoadFailureSwallowed ==
    [][(Called("access_all_data") /\ last'.roadExc)
        => /\ last'.exc = NoExc
           /\ \A f \in {"pois", "area", "buildings", "schools", "hospitals"} :
                 da'[f] # None /\ fetched'[f] = fetched[f] + 1
           /\ da'.nodes = da.nodes
           /\ da'.edges = da.edges]_vars

C4_Witness ==
    /\ last.op = "access_all_data"
    /\ last.roadExc
    /\ da.nodes # None
    /\ da.nodes # da.graph

\* C5: assess_esc50_distribution and assess_audio_duration raise ValueError,
\* and nothing else, when called before access_esc50 has loaded the metadata.
C5_ValueErrorWhenNotLoaded ==
    (last.op \in EscOps /\ da.esc50_meta = None) => last.exc = "ValueError"

AnyMissing(d) ==
    \E data \in {d.area, d.buildings, d.edges, d.nodes, d.pois} : data = None

\* C6: address_visualization calls access_all_data exactly when one of area,
\* buildings, edges, nodes, pois is None at entry, and when it returns
\* normally area, buildings and pois are populated; edges or nodes are None
\* then only if the road-network fetch of this call failed.
C6_VisualizationFetches ==
    [][Called("address_visualization")
        => /\ last'.allData <=> AnyMissing(da)
           /\ last'.exc = NoExc
                => /\ da'.area # None /\ da'.buildings # None /\ da'.pois # None
                   /\ (da'.edges = None \/ da'.nodes = None) => last'.roadExc]_vars

C6_Witness ==
    /\ last.op = "address_visualization"
    /\ last.allData
    /\ last.exc = NoExc
    /\ da.nodes = None
    /\ fetched["pois"] = 2

\* C10: nodes and edges are both None or both populated, and graph is
\* populated whenever they are.
C10_NodesEdgesTogether ==
    /\ da.nodes = None <=> da.edges = None
    /\ da.nodes # None => da.graph # None

\* A fetch that failed part-way: the graph is there, nodes and edges are not.
C10_Witness ==
    /\ da.graph # None
    /\ da.nodes = None
    /\ da.edges = None
    /\ last.extRaised

(***************************************************************************)
(* The feature counts on their own: a table and a list of features are     *)
(* drawn, address_feature_extraction is run on them with the query         *)
(* answering the table and with the query raising, and                     *)
(* assess_poi_distribution with the table as the POIs it fetches.          *)
(***************************************************************************)
\* Features in a requested list.
MaxFeatures == 2

FeaturePool ==
    {<<"amenity", NoneOpt>>, <<"amenity", Some("city")>>, <<"amenity", Some("")>>,
     <<"addr", Some("city")>>, <<"addr:city", NoneOpt>>,
     <<"latitude", NoneOpt>>, <<"shop", NoneOpt>>}

FeatureArgs == {NoneOpt} \cup {Some(l) : l \in SeqsUpTo(FeaturePool, 0, MaxFeatures)}

InitFeat ==
    /\ \E p \in {<<"Nyeri", -1, 37, 4, 2>>} :
            da = DataAccess_init(p[1], p[2], p[3], p[4], p[5])
    /\ fetched = [f \in LoadedFields |-> 0]
    /\ last = [op |-> "__init__", exc |-> NoExc, allData |-> FALSE,
               roadExc |-> FALSE, extRaised |-> FALSE, centre |-> <<>>]
    /\ nops = 0
    /\ \E pois \in Tables, features \in FeatureArgs :
            feat = [pois |-> pois, features |-> features, done |-> {},
                    extracted |-> <<>>, failed |-> <<>>, assessed |-> <<>>,
                    exc |-> NoExc]
    /\ Idle(audio)

\* address_feature_extraction, the query answering feat.pois.
FeatExtract ==
    LET r == address_feature_extraction(Enter, da.latitude, da.longitude, 2,
                                        feat.features, Some(feat.pois))
    IN  /\ "extracted" \notin feat.done
        /\ feat' = [feat EXCEPT !.done = @ \cup {"extracted"}, !.extracted = r.ret,
                                !.exc = IF r.exc # NoExc THEN r.exc ELSE @]
        /\ UNCHANGED <<da, fetched, last, nops, audio>>

\* address_feature_extraction, the query raising.
FeatExtractFails ==
    LET r == address_feature_extraction(Enter, da.latitude, da.longitude, 2,
                                        feat.features, NoneOpt)
    IN  /\ "failed" \notin feat.done
        /\ feat' = [feat EXCEPT !.done = @ \cup {"failed"}, !.failed = r.ret,
                                !.exc = IF r.exc # NoExc THEN r.exc ELSE @]
        /\ UNCHANGED <<da, fetched, last, nops, audio>>

\* assess_poi_distribution, feat.pois being the POIs of the object.
FeatAssess ==
    LET r == assess_poi_distribution(Enter, feat.features, TRUE, feat.pois)
    IN  /\ "assessed" \notin feat.done
        /\ feat' = [feat EXCEPT !.done = @ \cup {"assessed"}, !.assessed = r.ret,
                                !.exc = IF r.exc # NoExc THEN r.exc ELSE @]
        /\ da' = r.da
        /\ fetched' = r.fetched
        /\ UNCHANGED <<last, nops, audio>>

NextFeat == FeatExtract \/ FeatExtractFails \/ FeatAssess

SpecFeat == InitFeat /\ [][NextFeat]_vars

\* The list of features a call works on.
Requested == IF feat.features = NoneOpt THEN default_features ELSE feat.features[1]

RequestedSet == {Requested[i] : i \in 1..Len(Requested)}

\* The name the claims give a feature: k for (k, None), k:v for (k, v).
NameAsStated(f) == IF f[2] = NoneOpt THEN f[1] ELSE f[1] \o ":" \o f[2][1]

\* The name a feature gets: k for (k, None) and (k, ""), k:v otherwise.
NameAsAmended(f) ==
    IF f[2] = NoneOpt \/ f[2] = <<"">> THEN f[1] ELSE f[1] \o ":" \o f[2][1]

AllZero(d) == \A i \in 1..Len(d) : d[i][2] = 0

NoRepeatedKey(d) == Cardinality(DictKeys(d)) = Len(d)

\* C7 as stated: the dict has the same keys whether or not the query raises,
\* one per distinct requested feature, named k for (k, None) and k:v for
\* (k, v); a raising query gives counts of 0 and no exception.
C7_OneEntryPerFeature ==
    {"extracted", "failed"} \subseteq feat.done
        => /\ DictKeys(feat.extracted) = DictKeys(feat.failed)
           /\ DictKeys(feat.failed) = {NameAsStated(f) : f \in RequestedSet}
           /\ Len(feat.failed) = Cardinality(RequestedSet)
           /\ Len(feat.extracted) = Cardinality(RequestedSet)
           /\ AllZero(feat.failed)
           /\ feat.exc = NoExc

\* C7 amended: the dict has the same keys whether or not the query raises,
\* one entry per distinct name of a requested feature, the name being k for
\* (k, None) and (k, "") and k:v for any other (k, v), so that features of
\* the same name share an entry; a raising query gives counts of 0 and no
\* exception.
C7_OneEntryPerName ==
    {"extracted", "failed"} \subseteq feat.done
        => /\ DictKeys(feat.extracted) = DictKeys(feat.failed)
           /\ DictKeys(feat.failed) = {NameAsAmended(f) : f \in RequestedSet}
           /\ NoRepeatedKey(feat.failed)
           /\ NoRepeatedKey(feat.extracted)
           /\ AllZero(feat.failed)
           /\ feat.exc = NoExc

\* Two features of one name, counted and failed.
C7_Witness ==
    /\ {"extracted", "failed"} \subseteq feat.done
    /\ feat.features = Some(<< <<"addr", Some("city")>>, <<"addr:city", NoneOpt>> >>)
    /\ \E i \in 1..Len(feat.extracted) : feat.extracted[i][2] > 0

Lookup(d, k) == IF k \in DictKeys(d) THEN DictGet(d, k) ELSE -1

RowsEqual(pois, k, v) ==
    Cardinality({i \in 1..Len(pois.rows) : pois.rows[i][k] = v})

RowsNonNull(pois, k) ==
    Cardinality({i \in 1..Len(pois.rows) : pois.rows[i][k] # NaN})

\* The count the claim gives feature f on table pois.
CountAsStated(pois, f) ==
    IF f[1] \notin pois.columns THEN 0
    ELSE IF f[2] = NoneOpt THEN RowsNonNull(pois, f[1])
    ELSE RowsEqual(pois, f[1], f[2][1])

CountAsAmended(pois, f) ==
    IF f[1] \notin pois.columns THEN 0
    ELSE IF f[2] = NoneOpt \/ f[2] = <<"">> THEN RowsNonNull(pois, f[1])
    ELSE RowsEqual(pois, f[1], f[2][1])

\* C8 as stated: on the same table and features the two functions give every
\* feature the same count, the rows equal to v for (k, v), the non-null rows
\* for (k, None), 0 without a column k; so (k, v) counts at most (k, None).
C8_SameCounts ==
    {"extracted", "assessed"} \subseteq feat.done
        => \A f \in RequestedSet :
            /\ Lookup(feat.assessed, NameAsStated(f))
                 = Lookup(feat.extracted, NameAsStated(f))
            /\ Lookup(feat.extracted, NameAsStated(f)) = CountAsStated(feat.pois, f)
            /\ CountAsStated(feat.pois, f) <= CountAsStated(feat.pois, <<f[1], NoneOpt>>)

CentroidKeys == {"latitude", "longitude"}

\* The last feature of the list with the name of the i-th.
LastOfName(i) ==
    \A j \in (i + 1)..Len(Requested) :
        NameAsAmended(Requested[j]) # NameAsAmended(Requested[i])

\* C8 amended: on the same table and the same features, none of them with
\* the key latitude or longitude, the two functions give the same entries in
\* the same order; the entry of a name holds the count of the last feature
\* listed with that name: the rows equal to v for (k, v), the non-null rows
\* for (k, None) and (k, ""), 0 without a column k; and on any column the
\* rows equal to a value are at most the non-null rows.
C8_SameCountsOffCentroid ==
    ({"extracted", "assessed"} \subseteq feat.done
        /\ \A f \in RequestedSet : f[1] \notin CentroidKeys)
        => /\ feat.assessed = feat.extracted
           /\ \A i \in 1..Len(Requested) :
                LastOfName(i)
                    => /\ Lookup(feat.assessed, NameAsAmended(Requested[i]))
                            = CountAsAmended(feat.pois, Requested[i])
                       /\ Lookup(feat.extracted, NameAsAmended(Requested[i]))
                            = CountAsAmended(feat.pois, Requested[i])
           /\ \A k \in feat.pois.columns \ {"geometry"} : \A v \in TagCells(k) \ {NaN} :
                CountEqual(feat.pois, k, Some(v)) <= CountNotNull(feat.pois, k)

C8_Witness ==
    /\ {"extracted", "assessed"} \subseteq feat.done
    /\ feat.features = Some(<< <<"amenity", Some("city")>>, <<"amenity", NoneOpt>> >>)
    /\ Lookup(feat.assessed, "amenity:city") = 1
    /\ Lookup(feat.assessed, "amenity") = 2

(***************************************************************************)
(* ESC50Dataset                                                            *)
(*                                                                         *)
(* A waveform is the sequence of its channels, each the sequence of its    *)
(* samples; the samples are even, so that the mean of two channels is      *)
(* exact.                                                                  *)
(***************************************************************************)
\* Samples of a recording.
MaxSamples == 3

\* access.py:1-10, the names the imports of access.py bind
ModuleNames ==
    {"os", "warnings", "pd", "torchaudio", "Dataset", "librosa", "np", "ox",
     "gpd", "plt"}

\* The rows of the metadata file.
EscCsv ==
    << [filename |-> "1-100032-A-0.wav", fold |-> 1, target |-> 0],
       [filename |-> "2-100038-A-14.wav", fold |-> 2, target |-> 14],
       [filename |-> "3-100018-A-18.wav", fold |-> 3, target |-> 18] >>

RECURSIVE SelectFolds(_, _)
SelectFolds(rows, folds) ==
    IF rows = <<>> THEN <<>>
    ELSE IF Head(rows).fold \in folds
         THEN <<Head(rows)>> \o SelectFolds(Tail(rows), folds)
         ELSE SelectFolds(Tail(rows), folds)

ESC50Dataset_init(csv, audio_path, folds, sr, n_mels, duration) ==
    [df |-> IF folds # NoneOpt THEN SelectFolds(csv, folds[1]) ELSE csv,
     audio_path |-> audio_path,
     sr |-> sr,
     n_mels |-> n_mels,
     duration |-> duration]

ESC50Dataset_len(self) == Len(self.df)

NumFrames(waveform) == Len(waveform[1]) \* waveform.shape[1]

RECURSIVE SumChannels(_, _, _)
SumChannels(waveform, c, i) ==
    IF c > Len(waveform) THEN 0 ELSE waveform[c][i] + SumChannels(waveform, c + 1, i)

\* waveform.mean(dim=0, keepdim=True)
MeanChannels(waveform) ==
    << [i \in 1..NumFrames(waveform) |-> SumChannels(waveform, 1, i) \div Len(waveform)] >>

\* torch.nn.functional.pad(waveform, (0, pad_size))
PadRight(waveform, pad_size) ==
    [c \in 1..Len(waveform) |->
        [i \in 1..(NumFrames(waveform) + pad_size) |->
            IF i <= NumFrames(waveform) THEN waveform[c][i] ELSE 0]]

\* waveform[:, :num_samples]
Truncate(waveform, num_samples) ==
    [c \in 1..Len(waveform) |->
        [i \in 1..(IF NumFrames(waveform) < num_samples
                    THEN NumFrames(waveform) ELSE num_samples) |-> waveform[c][i]]]

\* idx: an index with 0 <= idx < len(self); loaded: what torchaudio.load
\* returns, NoneOpt when it raises. waveform is the one handed to the
\* mel-spectrogram transform.
ESC50Dataset_getitem(self, idx, loaded) ==
    LET row == self.df[idx + 1]
        none == [exc |-> NoExc, waveform |-> <<>>, target |-> row.target]
    IN  IF loaded = NoneOpt
        THEN [none EXCEPT !.exc = "Exception"]
        ELSE LET waveform == MeanChannels(loaded[1])
                 num_samples == self.duration * self.sr
             IN  IF NumFrames(waveform) < num_samples
                 THEN IF "torch" \in ModuleNames
                      THEN [none EXCEPT !.waveform =
                                PadRight(waveform, num_samples - NumFrames(waveform))]
                      ELSE [none EXCEPT !.exc = "NameError"]
                 ELSE [none EXCEPT !.waveform = Truncate(waveform, num_samples)]

SampleValues == {2, 4}

Recordings ==
    UNION {{<<ch>> : ch \in [1..n -> SampleValues]}
             \cup {<<ch, [i \in 1..n |-> 4]>> : ch \in [1..n -> SampleValues]} :
           n \in 0..MaxSamples}

InitAudio ==
    /\ \E p \in {<<"Nyeri", -1, 37, 4, 2>>} :
            da = DataAccess_init(p[1], p[2], p[3], p[4], p[5])
    /\ fetched = [f \in LoadedFields |-> 0]
    /\ last = [op |-> "__init__", exc |-> NoExc, allData |-> FALSE,
               roadExc |-> FALSE, extRaised |-> FALSE, centre |-> <<>>]
    /\ nops = 0
    /\ Idle(feat)
    /\ \E folds \in {NoneOpt, Some({1}), Some({2, 3})}, sr \in {1, 2}, duration \in {1, 2} :
            audio = [self |-> ESC50Dataset_init(EscCsv, "audio", folds, sr, 64, duration),
                     read |-> FALSE, idx |-> 0, loaded |-> NoneOpt,
                     item |-> [exc |-> NoExc, waveform |-> <<>>, target |-> 0]]

GetItem ==
    \E idx \in 0..(ESC50Dataset_len(audio.self) - 1),
       loaded \in {NoneOpt} \cup {Some(w) : w \in Recordings} :
        /\ audio' = [audio EXCEPT !.read = TRUE, !.idx = idx, !.loaded = loaded,
                        !.item = ESC50Dataset_getitem(audio.self, idx, loaded)]
        /\ UNCHANGED <<da, fetched, last, nops, feat>>

NextAudio == GetItem

SpecAudio == InitAudio /\ [][NextAudio]_vars

\* C9: for 0 <= idx < len(dataset), the file being readable, __getitem__
\* succeeds and hands the transform a mono waveform of exactly
\* duration * sr samples: a shorter recording padded with zeros at the end,
\* any other cut to its first duration * sr samples.
C9_FixedLength ==
    (audio.read /\ audio.loaded # NoneOpt)
        => LET mono == MeanChannels(audio.loaded[1])[1]
               n == audio.self.duration * audio.self.sr
               out == audio.item.waveform
           IN  /\ audio.item.exc = NoExc
               /\ Len(out) = 1
               /\ Len(out[1]) = n
               /\ \A i \in 1..n :
                    out[1][i] = IF i <= Len(mono) THEN mono[i] ELSE 0

====
